---- MODULE Spec2Model ----
(***************************************************************************)
(* Model of the multi-query section of hybrid_search_and_multi_query.ipynb *)
(* (the cells at lines 376-438 and 460-475).                               *)
(*                                                                         *)
(* The notebook owns no index, ranking or fusion code: every search is a   *)
(* call to the managed knowledge base, and query generation and answering  *)
(* are calls to the hosted model.  Those collaborators are modelled as     *)
(* nondeterministic choices; what is modelled deterministically is what    *)
(* the notebook itself fixes: the retriever configuration, the             *)
(* include_original flag, the union of distinct documents over all         *)
(* sub-queries, and the way the final prompt is filled.                    *)
(***************************************************************************)
EXTENDS Integers, Sequences, FiniteSets, TLC

(* ------------------------------ bounds -------------------------------- *)
\* chunks stored in the knowledge base
NumDocs == 2
\* most hits the knowledge base hands back for one search in the model
MaxHits == 2
\* most alternative questions the model reads from one generation
MaxGen == 3
\* a length limit a caller of the final-answer step might have in mind
ContextBudget == 2

(* ------------------------- program constants -------------------------- *)
\* "numberOfResults": 5 of the retriever's vectorSearchConfiguration
numberOfResults == 5
\* "generate 3 different versions" of multi_query_prompt
n_versions == 3
\* include_original=True of MultiQueryRetriever.from_llm
include_original == TRUE

None == "none"

\* the two questions the notebook assigns to the global `query`
Q_COST == "operating lease cost"
Q_LIAB == "lease liabilities and sublease income"
NotebookQueries == {Q_COST, Q_LIAB}

\* alternative questions the model may write
GenQueries == {"g1", "g2"}
AllQueries == NotebookQueries \cup GenQueries

Docs == 1..NumDocs

\* length of a chunk's text
DocLen(d) == d

(* ------------------------------ helpers ------------------------------- *)
Min(a, b) == IF a <= b THEN a ELSE b

Range(s) == {s[i] : i \in 1..Len(s)}

SeqsUpTo(S, n) == UNION {[1..m -> S] : m \in 0..n}

IsInjective(s) == \A i, j \in 1..Len(s) : s[i] = s[j] => i = j

\* what one search may return: at most numberOfResults distinct chunks,
\* best first
HitLists == {h \in SeqsUpTo(Docs, Min(numberOfResults, MaxHits)) : IsInjective(h)}

VARIABLES
    query,        \* notebook global `query`
    pc,           \* position in the section
    question,     \* the question the running multi-query retrieval was given
    queries,      \* the sub-queries of the running multi-query retrieval
    i,            \* number of sub-queries already searched
    documents,    \* hits of the searched sub-queries, concatenated
    kb,           \* what the knowledge base returns per query text, once asked
    unique_docs,  \* notebook global `unique_docs`
    prompt,       \* the formatted final_answer_prompt
    answer        \* notebook global `answer`

vars == <<query, pc, question, queries, i, documents, kb, unique_docs, prompt, answer>>

Init ==
    /\ query \in NotebookQueries
    /\ pc = "idle"
    /\ question = None
    /\ queries = <<>>
    /\ i = 0
    /\ documents = <<>>
    /\ kb = [q \in {} |-> <<>>]
    /\ unique_docs = <<>>
    /\ prompt = [question |-> None, documents |-> <<>>]
    /\ answer = None

(* ------------------- multi-query cell (lines 376-438) ------------------ *)
\* the sub-queries of one retrieval: the alternative questions the model
\* wrote, and the question itself when include_original is set
QuerySet_NoOriginal(lines, original) == lines

QuerySet(lines, original) ==
    IF include_original THEN Append(lines, original) ELSE lines

\* "a distinct set of document across all queries": every document that
\* some sub-query retrieved, once.  The notebook does not say in which order
\* the library lists them, so every order is possible.
UniqueDocuments(retrieved) ==
    {u \in [1..Cardinality(Range(retrieved)) -> Range(retrieved)] : IsInjective(u)}

\* retriever_from_llm.get_relevant_documents(query = query), first step: the
\* model is asked for alternative versions of the question, one per line
GenerateQueries ==
    /\ pc = "idle"
    /\ \E lines \in SeqsUpTo(GenQueries, MaxGen) :
          queries' = QuerySet(lines, query)
    /\ question' = query
    /\ i' = 0
    /\ documents' = <<>>
    /\ pc' = "retrieve"
    /\ UNCHANGED <<query, kb, unique_docs, prompt, answer>>

\* one sub-query is sent to the knowledge base retriever; the corpus does
\* not change during the session, so a query text asked twice gets the
\* same hits
RetrieveDocuments ==
    /\ pc = "retrieve"
    /\ i < Len(queries)
    /\ LET q == queries[i + 1]
       IN  \E hits \in HitLists :
             /\ q \in DOMAIN kb => hits = kb[q]
             /\ kb' = [x \in DOMAIN kb \cup {q} |-> IF x = q THEN hits ELSE kb[x]]
             /\ documents' = documents \o hits
    /\ i' = i + 1
    /\ UNCHANGED <<query, pc, question, queries, unique_docs, prompt, answer>>

\* the distinct documents over all sub-queries become `unique_docs`
UniqueUnion ==
    /\ pc = "retrieve"
    /\ i = Len(queries)
    /\ unique_docs' \in UniqueDocuments(documents)
    /\ pc' = "retrieved"
    /\ UNCHANGED <<query, question, queries, i, documents, kb, prompt, answer>>

(* ------------------- final-answer cell (lines 460-475) ----------------- *)
\* total length of the text placed in a prompt
RECURSIVE TotalChars(_)
TotalChars(parts) ==
    IF parts = <<>> THEN 0
    ELSE TotalChars(SubSeq(parts, 1, Len(parts) - 1)) + parts[Len(parts)].chars

\* a budgeted assembly: whole chunks in list order while they fit
RECURSIVE FormatDocuments_Budget(_)
FormatDocuments_Budget(docs) ==
    IF docs = <<>> THEN <<>>
    ELSE LET front == FormatDocuments_Budget(SubSeq(docs, 1, Len(docs) - 1))
             d     == docs[Len(docs)]
         IN  IF /\ Len(front) = Len(docs) - 1
                /\ TotalChars(front) + DocLen(d) <= ContextBudget
             THEN Append(front, [chunk |-> d, chars |-> DocLen(d)])
             ELSE front

\* {documents} of the template is filled with the whole list: every
\* document, in list order, with all of its text
FormatDocuments(docs) ==
    [j \in 1..Len(docs) |-> [chunk |-> docs[j], chars |-> DocLen(docs[j])]]

Answers == {"a1", "a2"}

FinalAnswer ==
    /\ pc = "retrieved"
    /\ query' = Q_LIAB
    /\ prompt' = [question |-> Q_LIAB, documents |-> FormatDocuments(unique_docs)]
    /\ answer' \in Answers
    /\ pc' = "answered"
    /\ UNCHANGED <<question, queries, i, documents, kb, unique_docs>>

Next ==
    \/ GenerateQueries
    \/ RetrieveDocuments
    \/ UniqueUnion
    \/ FinalAnswer

Spec == Init /\ [][Next]_vars

TypeOK ==
    /\ query \in NotebookQueries
    /\ pc \in {"idle", "retrieve", "retrieved", "answered"}
    /\ question \in NotebookQueries \cup {None}
    /\ queries \in SeqsUpTo(AllQueries, MaxGen + 1)
    /\ i \in 0..Len(queries)
    /\ Range(documents) \subseteq Docs
    /\ DOMAIN kb \subseteq AllQueries
    /\ \A q \in DOMAIN kb : kb[q] \in HitLists
    /\ Range(unique_docs) \subseteq Docs
    /\ answer \in Answers \cup {None}

(* ------------------------------- claims -------------------------------- *)
\* the chunks whose text is in the prompt, in the order they were placed
Included == [j \in 1..Len(prompt.documents) |-> prompt.documents[j].chunk]

\* every chunk in the prompt is there with all of its text
AllWhole == \A j \in 1..Len(prompt.documents) :
                prompt.documents[j].chars = DocLen(prompt.documents[j].chunk)

IsPrefix(s, t) == Len(s) <= Len(t) /\ \A j \in 1..Len(s) : s[j] = t[j]

\* what a single search of the question through the same retriever may
\* return, given what the knowledge base has already answered
SingleSearch == {h \in HitLists : question \in DOMAIN kb => h = kb[question]}

\* C8: a multi-query retrieval for which the model wrote 3 alternative
\* questions returns at least as many documents as a single search of the
\* original question through the same retriever.
C8_MultiQueryAtLeastSingle ==
    (pc \in {"retrieved", "answered"} /\ Len(queries) >= n_versions)
        => \A h \in SingleSearch : Len(unique_docs) >= Len(h)

\* C8 witness: three alternatives were searched next to the question, the
\* question alone has hits, and the union is strictly richer.
C8_Witness ==
    /\ pc = "retrieved"
    /\ Len(queries) = n_versions + 1
    /\ queries[Len(queries)] = question
    /\ question \in DOMAIN kb
    /\ Len(kb[question]) >= 1
    /\ Len(unique_docs) > Len(kb[question])

====
